---- MODULE Spec2Model ----
(***************************************************************************)
(* Load-balancer workflows (AddPool, AddVip, AddMember, AddMonitor) and    *)
(* the network ports table of the project dashboard.                       *)
(*                                                                         *)
(* One request is served at a time: from the idle state a request runs one *)
(* handler to completion (form clean, Step.contribute, Workflow.handle, an *)
(* Action constructor, or the rendering of one table cell), drawing its    *)
(* inputs and the outcome of every remote gateway call from small sets;    *)
(* Respond ends the request.  Python dicts are functions over string keys, *)
(* lists are sequences, and a dict passed as **kwargs is logged by value.  *)
(***************************************************************************)
EXTENDS Integers, Sequences, FiniteSets, TLC

VARIABLES wf, cleaned_data, errors, merged, context, calls, result,
          failure_message, fields, notices, port, attached

vars == <<wf, cleaned_data, errors, merged, context, calls, result,
          failure_message, fields, notices, port, attached>>

----------------------------------------------------------------------------
(* Bounds of the model *)

\* instance ids offered by server_list / selectable as members: 1..NumInstances
NumInstances == 2
\* longest members selection submitted to AddMember
MaxMembers == 2
\* longest list returned by a gateway read call (pools, networks, servers)
MaxList == 2

----------------------------------------------------------------------------
(* Python values *)

None == "<None>"
EmptyDict == [k \in {} |-> None]

\* dict.get(key) with the default None
Get(d, k) == IF k \in DOMAIN d THEN d[k] ELSE None

\* d[k] = v
Put(d, k, v) == [x \in (DOMAIN d) \cup {k} |-> IF x = k THEN v ELSE d[x]]

\* truth value of a string-or-None value
Truthy(v) == v \notin {None, ""}

\* the outcome of a gateway call: it raises, or returns a value
Raises == [raised |-> TRUE, value |-> None]
Returns(v) == [raised |-> FALSE, value |-> v]

\* one gateway call: operation, arguments as passed, whether it raised
Call(op, args, raised) == [op |-> op, args |-> args, raised |-> raised]

\* what a handle invocation leaves behind
Outcome(res, ctx, log, msg) ==
    [result |-> res, context |-> ctx, calls |-> log, failure_message |-> msg]

Range(s) == {s[i] : i \in DOMAIN s}

----------------------------------------------------------------------------
(* workflows.Step.contribute of the framework, as the Steps inherit it *)

Step_contribute(contributes, data, ctx) ==
    IF DOMAIN data # {}
    THEN [k \in (DOMAIN ctx) \cup contributes |->
             IF k \in contributes THEN Get(data, k) ELSE ctx[k]]
    ELSE ctx

\* a form with errors is not valid and its workflow is not finalized
Form_is_valid(errs) == errs = {}

\* fields that failed their own validation are missing from cleaned_data
Form_field_errors(fieldNames, data) == fieldNames \ DOMAIN data

----------------------------------------------------------------------------
(* AddPool *)

AddPoolStep_contributes ==
    {"name", "description", "subnet_id", "protocol", "lb_method",
     "admin_state_up"}

\* `if data: return context`: without data the method returns None
AddPoolStep_returns_context(data) == DOMAIN data # {}

AddPoolStep_contribute(data, ctx) ==
    LET c == Step_contribute(AddPoolStep_contributes, data, ctx)
    IN  IF AddPoolStep_returns_context(data) THEN c ELSE None

AddPool_failure_message == "Unable to add pool"

\* handle that calls pool_create a second time when the first call raised
AddPool_handle_retries(ctx, gw) ==
    LET create == Call("pool_create", ctx, gw.pool_create.raised)
    IN  IF create.raised
        THEN Outcome("False", ctx, <<create, create>>,
                     AddPool_failure_message)
        ELSE Outcome("True", ctx, <<create>>, AddPool_failure_message)

AddPool_handle(ctx, gw) ==
    LET create == Call("pool_create", ctx, gw.pool_create.raised)
    IN  IF create.raised
        THEN Outcome("False", ctx, <<create>>, AddPool_failure_message)
        ELSE Outcome("True", ctx, <<create>>, AddPool_failure_message)

----------------------------------------------------------------------------
(* AddVip *)

AddVipStep_contributes ==
    {"name", "description", "floatip_address", "other_address",
     "protocol_port", "protocol", "session_persistence", "cookie_name",
     "connection_limit", "admin_state_up"}

AddVipStep_depends_on == {"pool_id", "subnet"}

\* clean requiring the cookie name for the wrong persistence type
AddVipAction_clean_http_cookie(data) ==
    IF Get(data, "session_persistence") = "HTTP_COOKIE"
       /\ ~Truthy(Get(data, "cookie_name"))
    THEN {"cookie_name"}
    ELSE {}

\* AddVipAction.clean: the fields it marks with an error
AddVipAction_clean(data) ==
    IF Get(data, "session_persistence") = "APP_COOKIE"
       /\ ~Truthy(Get(data, "cookie_name"))
    THEN {"cookie_name"}
    ELSE {}

AddVipStep_contribute(data, ctx) ==
    Step_contribute(AddVipStep_contributes, data, ctx)

AddVip_failure_message == "Unable to add VIP"
AddVip_only_one_message == "Only one address can be specified. Unable to add VIP"
AddVip_no_pool_message == "Unable to retrieve the specified pool. Unable to add VIP"

\* the address rule without the rejection of two addresses
AddVip_resolve_address_accepts_both(ctx) ==
    IF ctx["other_address"] = ""
    THEN [rejected |-> FALSE,
          context |-> Put(ctx, "address", ctx["floatip_address"])]
    ELSE [rejected |-> FALSE,
          context |-> Put(ctx, "address", ctx["other_address"])]

\* the address rule with the two sources exchanged
AddVip_resolve_address_swapped(ctx) ==
    IF ctx["other_address"] = ""
    THEN [rejected |-> FALSE,
          context |-> Put(ctx, "address", ctx["other_address"])]
    ELSE IF ~(ctx["floatip_address"] = "")
         THEN [rejected |-> TRUE, context |-> ctx]
         ELSE [rejected |-> FALSE,
               context |-> Put(ctx, "address", ctx["floatip_address"])]

\* the address rule at the head of AddVip.handle
AddVip_resolve_address(ctx) ==
    IF ctx["other_address"] = ""
    THEN [rejected |-> FALSE,
          context |-> Put(ctx, "address", ctx["floatip_address"])]
    ELSE IF ~(ctx["floatip_address"] = "")
         THEN [rejected |-> TRUE, context |-> ctx]
         ELSE [rejected |-> FALSE,
               context |-> Put(ctx, "address", ctx["other_address"])]

\* the session_persistence dict built by AddVip.handle, as a set of items
AddVip_session_persistence(ctx) ==
    IF Truthy(ctx["session_persistence"])
    THEN IF ctx["session_persistence"] = "APP_COOKIE"
         THEN {<<"type", ctx["session_persistence"]>>,
               <<"cookie_name", ctx["cookie_name"]>>}
         ELSE {<<"type", ctx["session_persistence"]>>}
    ELSE {}

\* the pool lookup that carries on after a failure
AddVip_pool_lookup_ignores_failure(ctx, gw) ==
    LET failed == gw.pool_get.raised
                  \/ "subnet_id" \notin DOMAIN gw.pool_get.value
    IN  [failed |-> FALSE,
         call |-> Call("pool_get", [pool_id |-> ctx["pool_id"]],
                       gw.pool_get.raised),
         context |-> Put(ctx, "subnet_id",
                         IF failed THEN None
                         ELSE gw.pool_get.value["subnet_id"])]

\* the pool lookup of AddVip.handle: pool['subnet_id'] is read inside the
\* same try as pool_get, and a failure of either sets subnet_id to None
AddVip_pool_lookup(ctx, gw) ==
    LET failed == gw.pool_get.raised
                  \/ "subnet_id" \notin DOMAIN gw.pool_get.value
    IN  [failed |-> failed,
         call |-> Call("pool_get", [pool_id |-> ctx["pool_id"]],
                       gw.pool_get.raised),
         context |-> Put(ctx, "subnet_id",
                         IF failed THEN None
                         ELSE gw.pool_get.value["subnet_id"])]

AddVip_handle(ctx, gw) ==
    LET addr == AddVip_resolve_address(ctx)
        pool == AddVip_pool_lookup(addr.context, gw)
    IN  IF addr.rejected
        THEN Outcome("False", ctx, <<>>, AddVip_only_one_message)
        ELSE IF pool.failed
        THEN Outcome("False", pool.context, <<pool.call>>,
                     AddVip_no_pool_message)
        ELSE LET c3 == Put(pool.context, "session_persistence",
                           AddVip_session_persistence(pool.context))
                 create == Call("vip_create", c3, gw.vip_create.raised)
             IN  IF create.raised
                 THEN Outcome("False", c3, <<pool.call, create>>,
                              AddVip_failure_message)
                 ELSE Outcome("True", c3, <<pool.call, create>>,
                              AddVip_failure_message)

----------------------------------------------------------------------------
(* AddMonitor *)

AddMonitorStep_contributes ==
    {"pool_id", "type", "delay", "timeout", "max_retries", "http_method",
     "url_path", "expected_codes", "admin_state_up"}

\* clean that forgets the https type
AddMonitorAction_clean_http_only(data) ==
    IF Get(data, "type") \in {"http"}
    THEN {f \in {"http_method", "url_path", "expected_codes"} :
             ~Truthy(Get(data, f))}
    ELSE {}

\* AddMonitorAction.clean: the fields it marks with an error
AddMonitorAction_clean(data) ==
    IF Get(data, "type") \in {"http", "https"}
    THEN {f \in {"http_method", "url_path", "expected_codes"} :
             ~Truthy(Get(data, f))}
    ELSE {}

\* `if data: return context`: without data the method returns None
AddMonitorStep_returns_context(data) == DOMAIN data # {}

AddMonitorStep_contribute(data, ctx) ==
    LET c == Step_contribute(AddMonitorStep_contributes, data, ctx)
    IN  IF AddMonitorStep_returns_context(data) THEN c ELSE None

AddMonitor_failure_message == "Unable to add monitor"

AddMonitor_handle(ctx, gw) ==
    LET create == Call("pool_health_monitor_create", ctx,
                       gw.pool_health_monitor_create.raised)
    IN  IF create.raised
        THEN Outcome("False", ctx, <<create>>, AddMonitor_failure_message)
        ELSE Outcome("True",
                     Put(ctx, "monitor_id",
                         Get(gw.pool_health_monitor_create.value, "id")),
                     <<create>>, AddMonitor_failure_message)

----------------------------------------------------------------------------
(* AddMember *)

AddMemberStep_contributes ==
    {"pool_id", "members", "protocol_port", "weight", "admin_state_up"}

AddMemberStep_contribute(data, ctx) ==
    Step_contribute(AddMemberStep_contributes, data, ctx)

AddMember_failure_message == "Unable to add member(s)."

\* the loop that goes on to the next instance when member_create raised
RECURSIVE AddMember_loop_continues(_, _, _, _)
AddMember_loop_continues(i, ctx, log, gw) ==
    IF i > Len(ctx["members"])
    THEN Outcome("True", ctx, log, AddMember_failure_message)
    ELSE LET m == ctx["members"][i]
             plist == gw.port_list[m]
             list == Call("port_list", [device_id |-> m], plist.raised)
         IN  IF plist.raised
             THEN Outcome("False", ctx, Append(log, list),
                          AddMember_failure_message)
             ELSE IF plist.value # <<>> /\ plist.value[1].fixed_ips = <<>>
             THEN Outcome("IndexError", ctx, Append(log, list),
                          AddMember_failure_message)
             ELSE LET c1 == IF plist.value # <<>>
                            THEN Put(ctx, "address",
                                     plist.value[1].fixed_ips[1]["ip_address"])
                            ELSE ctx
                      made == gw.member_create[m]
                      create == Call("member_create", c1, made.raised)
                      log2 == Append(Append(log, list), create)
                  IN  IF made.raised
                      THEN AddMember_loop_continues(i + 1, c1, log2, gw)
                      ELSE AddMember_loop_continues(
                               i + 1, Put(c1, "member_id", made.value.id),
                               log2, gw)

\* the loop that merges the port_list parameters into the context
RECURSIVE AddMember_loop_merges_params(_, _, _, _)
AddMember_loop_merges_params(i, ctx, log, gw) ==
    IF i > Len(ctx["members"])
    THEN Outcome("True", ctx, log, AddMember_failure_message)
    ELSE LET m == ctx["members"][i]
             plist == gw.port_list[m]
             list == Call("port_list", [device_id |-> m], plist.raised)
             c0 == Put(ctx, "device_id", m)
         IN  IF plist.raised
             THEN Outcome("False", c0, Append(log, list),
                          AddMember_failure_message)
             ELSE IF plist.value # <<>> /\ plist.value[1].fixed_ips = <<>>
             THEN Outcome("IndexError", c0, Append(log, list),
                          AddMember_failure_message)
             ELSE LET c1 == IF plist.value # <<>>
                            THEN Put(c0, "address",
                                     plist.value[1].fixed_ips[1]["ip_address"])
                            ELSE c0
                      made == gw.member_create[m]
                      create == Call("member_create", c1, made.raised)
                      log2 == Append(Append(log, list), create)
                  IN  IF made.raised
                      THEN Outcome("False", c1, log2,
                                   AddMember_failure_message)
                      ELSE AddMember_loop_merges_params(
                               i + 1, Put(c1, "member_id", made.value.id),
                               log2, gw)

\* One pass of the loop per selected instance, from position i on.
\* gw.port_list[m] and gw.member_create[m] are the outcomes of the calls
\* made for instance m.  plist[0].fixed_ips[0] is outside both try blocks:
\* an empty fixed_ips makes the IndexError leave handle.
RECURSIVE AddMember_loop(_, _, _, _)
AddMember_loop(i, ctx, log, gw) ==
    IF i > Len(ctx["members"])
    THEN Outcome("True", ctx, log, AddMember_failure_message)
    ELSE LET m == ctx["members"][i]
             plist == gw.port_list[m]
             list == Call("port_list", [device_id |-> m], plist.raised)
         IN  IF plist.raised
             THEN Outcome("False", ctx, Append(log, list),
                          AddMember_failure_message)
             ELSE IF plist.value # <<>> /\ plist.value[1].fixed_ips = <<>>
             THEN Outcome("IndexError", ctx, Append(log, list),
                          AddMember_failure_message)
             ELSE LET c1 == IF plist.value # <<>>
                            THEN Put(ctx, "address",
                                     plist.value[1].fixed_ips[1]["ip_address"])
                            ELSE ctx
                      made == gw.member_create[m]
                      create == Call("member_create", c1, made.raised)
                      log2 == Append(Append(log, list), create)
                  IN  IF made.raised
                      THEN Outcome("False", c1, log2,
                                   AddMember_failure_message)
                      ELSE AddMember_loop(i + 1,
                                          Put(c1, "member_id", made.value.id),
                                          log2, gw)

AddMember_handle(ctx, gw) == AddMember_loop(1, ctx, <<>>, gw)

----------------------------------------------------------------------------
(* Action constructors: choice lists populated from gateway read calls *)

\* exceptions.handle: reports the failure to the user as a notice
exceptions_handle(seen, message) == Append(seen, message)

\* the names used by the model, in Python's string order
NameOrder == <<"app", "db", "web">>
NameRank(n) == CHOOSE i \in DOMAIN NameOrder : NameOrder[i] = n

\* [(x.id, x.name) for x in seq]
IdNameChoices(seq) == [i \in 1..Len(seq) |-> <<seq[i].id, seq[i].name>>]

\* insertion of the pair <<key, item>> after every pair whose key is not
\* greater: the order of equal keys is kept, as Python's sort keeps it
RECURSIVE InsertByKey(_, _)
InsertByKey(sortedPairs, x) ==
    IF sortedPairs = <<>>
    THEN <<x>>
    ELSE IF NameRank(x[1]) < NameRank(Head(sortedPairs)[1])
         THEN <<x>> \o sortedPairs
         ELSE <<Head(sortedPairs)>> \o InsertByKey(Tail(sortedPairs), x)

RECURSIVE SortPairs(_)
SortPairs(pairs) ==
    IF pairs = <<>>
    THEN <<>>
    ELSE InsertByKey(SortPairs(SubSeq(pairs, 1, Len(pairs) - 1)),
                     pairs[Len(pairs)])

\* the items of sorted pairs
Items(pairs) == [i \in 1..Len(pairs) |-> pairs[i][2]]

\* sorted(pools, key=lambda pool: pool.name)
sorted_pools(pools) ==
    Items(SortPairs([i \in 1..Len(pools) |-> <<pools[i].name, pools[i]>>]))

\* sorted(members_choices, key=lambda member: member[1])
sorted_members(choices) ==
    Items(SortPairs([i \in 1..Len(choices) |-> <<choices[i][2], choices[i]>>]))

\* [s for n in networks for s in n['subnets']]
RECURSIVE Subnets(_)
Subnets(networks) ==
    IF networks = <<>>
    THEN <<>>
    ELSE Head(networks)["subnets"] \o Subnets(Tail(networks))

Field(choices, required, label) ==
    [choices |-> choices, required |-> required, label |-> label]

\* what a constructor leaves behind
Built(res, flds, seen, log) ==
    [result |-> res, fields |-> flds, notices |-> seen, calls |-> log]

AddPoolAction_init(gw) ==
    LET failed == gw.network_list_for_tenant.raised
        seen == IF failed
                THEN exceptions_handle(<<>>, "Unable to retrieve networks list.")
                ELSE <<>>
        networks == IF failed THEN <<>> ELSE gw.network_list_for_tenant.value
        subnet_id_choices ==
            <<(<<"", "Select a Subnet">>)>>
            \o [i \in 1..Len(Subnets(networks)) |->
                   <<Subnets(networks)[i].id, Subnets(networks)[i].cidr>>]
    IN  Built("constructed",
              [subnet_id |-> Field(subnet_id_choices, TRUE, "Subnet"),
               protocol |-> Field(<<(<<"", "Select a Protocol">>),
                                    (<<"HTTP", "HTTP">>),
                                    (<<"HTTPS", "HTTPS">>)>>, TRUE, "Protocol"),
               lb_method |-> Field(<<(<<"", "Select a Method">>),
                                     (<<"ROUND_ROBIN", "ROUND_ROBIN">>),
                                     (<<"LEAST_CONNECTIONS", "LEAST_CONNECTIONS">>),
                                     (<<"SOURCE_IP", "SOURCE_IP">>)>>,
                                   TRUE, "Load Balancing Method")],
              seen,
              <<Call("network_list_for_tenant", EmptyDict, failed)>>)

AddMemberAction_init(gw) ==
    LET poolsFailed == gw.pools_get.raised
        seen1 == IF poolsFailed
                 THEN exceptions_handle(<<>>, "Unable to retrieve pools list.")
                 ELSE <<>>
        pools == sorted_pools(IF poolsFailed THEN <<>>
                              ELSE gw.pools_get.value)
        pool_id_choices ==
            <<(<<"", "Select a Pool">>)>>
            \o IdNameChoices(pools)
        serversFailed == gw.server_list.raised
        seen2 == IF serversFailed
                 THEN exceptions_handle(seen1,
                                        "Unable to retrieve instances list.")
                 ELSE seen1
        servers == IF serversFailed THEN <<>> ELSE gw.server_list.value
        members_choices == IdNameChoices(servers)
        reads == <<Call("pools_get", EmptyDict, poolsFailed),
                   Call("server_list", EmptyDict, serversFailed)>>
    IN  IF Len(servers) = 0
        THEN Built("constructed",
                   [pool_id |-> Field(pool_id_choices, FALSE, "Pool"),
                    members |-> Field(<<>>, FALSE,
                                      "No servers available. Click Add to cancel."),
                    weight |-> Field(<<>>, FALSE, "Weight"),
                    protocol_port |-> Field(<<>>, FALSE, "Protocol Port")],
                   seen2, reads)
        ELSE Built("constructed",
                   [pool_id |-> Field(pool_id_choices, TRUE, "Pool"),
                    members |-> Field(sorted_members(members_choices),
                                      TRUE, "Member(s)"),
                    weight |-> Field(<<>>, TRUE, "Weight"),
                    protocol_port |-> Field(<<>>, TRUE, "Protocol Port")],
                   seen2, reads)

\* the constructor without the try around pools_get
AddMonitorAction_init_unguarded(gw) ==
    LET failed == gw.pools_get.raised
        pool_id_choices ==
            <<(<<"", "Select a Pool">>)>>
            \o (IF failed
                THEN <<>>
                ELSE IdNameChoices(gw.pools_get.value))
    IN  Built(IF failed THEN "raised" ELSE "constructed",
              [pool_id |-> Field(pool_id_choices, TRUE, "Pool")],
              <<>>,
              <<Call("pools_get", EmptyDict, failed)>>)

AddMonitorAction_init(gw) ==
    LET failed == gw.pools_get.raised
        seen == IF failed
                THEN exceptions_handle(<<>>, "Unable to retrieve pools list.")
                ELSE <<>>
        pool_id_choices ==
            <<(<<"", "Select a Pool">>)>>
            \o (IF failed
                THEN <<>>
                ELSE IdNameChoices(gw.pools_get.value))
    IN  Built("constructed",
              [pool_id |-> Field(pool_id_choices, TRUE, "Pool")],
              seen,
              <<Call("pools_get", EmptyDict, failed)>>)

----------------------------------------------------------------------------
(* Ports table *)

\* the column with device_id looked at first
get_attached_device_first(pt) ==
    IF Truthy(pt["device_id"])
    THEN "Attached"
    ELSE IF Truthy(pt["device_owner"])
         THEN pt["device_owner"]
         ELSE "Detached"

\* the "Attached Device" column
get_attached(pt) ==
    IF Truthy(pt["device_owner"])
    THEN pt["device_owner"]
    ELSE IF Truthy(pt["device_id"])
         THEN "Attached"
         ELSE "Detached"

----------------------------------------------------------------------------
(* Inputs: submitted form data, seeded context, gateway behaviour *)

Instances == 1..NumInstances

\* the sequences over S without repetition, of length at most n
DistinctSeqs(S, n) ==
    {q \in UNION {[1..k -> S] : k \in 0..n} :
        \A i, j \in DOMAIN q : i # j => q[i] # q[j]}

\* cleaned_data: the fields that validated, without those in missing
Cleaned(full, missing) == [k \in (DOMAIN full) \ missing |-> full[k]]

AddPool_data ==
    {[name |-> "pool1", description |-> d, subnet_id |-> sn, protocol |-> pr,
      lb_method |-> lb, admin_state_up |-> up] :
        d \in {"", "front"}, sn \in {"s1", "s2"}, pr \in {"HTTP", "HTTPS"},
        lb \in {"ROUND_ROBIN", "LEAST_CONNECTIONS", "SOURCE_IP"},
        up \in BOOLEAN}

AddPool_gateways ==
    {[pool_create |-> o] : o \in {Raises, Returns([id |-> "p1"])}}

AddVip_data ==
    {Cleaned([name |-> "vip1", description |-> "", floatip_address |-> fl,
              other_address |-> ot, protocol_port |-> 80, protocol |-> "HTTP",
              session_persistence |-> sp, cookie_name |-> ck,
              connection_limit |-> -1, admin_state_up |-> TRUE], missing) :
        fl \in {"", "10.0.0.5"}, ot \in {"", "10.0.0.9"},
        sp \in {"", "SOURCE_IP", "HTTP_COOKIE", "APP_COOKIE"},
        ck \in {"", "sid"}, missing \in SUBSET {"cookie_name"}}

AddVip_seed ==
    [k \in AddVipStep_depends_on |->
        IF k = "pool_id" THEN "p1" ELSE "10.0.0.0/24"]

AddVip_gateways ==
    {[pool_get |-> g, vip_create |-> c] :
        g \in {Raises, Returns([id |-> "p1", subnet_id |-> "s1"]),
               Returns([id |-> "p1"])},
        c \in {Raises, Returns([id |-> "v1"])}}

AddMember_data ==
    {[pool_id |-> "p1", members |-> ms, protocol_port |-> 80, weight |-> w,
      admin_state_up |-> TRUE] :
        ms \in DistinctSeqs(Instances, MaxMembers), w \in {1}}

\* the addresses of instance m
IpOf(m, n) == <<"10.0", n, m>>

Port(ips) == [fixed_ips |-> [i \in 1..Len(ips) |-> [ip_address |-> ips[i]]]]

\* what port_list(device_id=m) may do
PortListOutcome(m, n) ==
    CASE n = 1 -> Raises
      [] n = 2 -> Returns(<<>>)
      [] n = 3 -> Returns(<<Port(<<>>)>>)
      [] n = 4 -> Returns(<<Port(<<IpOf(m, 1)>>)>>)
      [] OTHER -> Returns(<<Port(<<IpOf(m, 1), IpOf(m, 2)>>),
                            Port(<<IpOf(m, 3)>>)>>)

AddMember_gateways ==
    {[port_list |-> [m \in Instances |-> PortListOutcome(m, pl[m])],
      member_create |-> [m \in Instances |->
                            IF m \in ok
                            THEN Returns([id |-> <<"member", m>>])
                            ELSE Raises]] :
        pl \in [Instances -> 1..5], ok \in SUBSET Instances}

AddMonitor_data ==
    {Cleaned([pool_id |-> "p1", type |-> ty, delay |-> 5, timeout |-> 3,
              max_retries |-> 2, http_method |-> hm, url_path |-> up,
              expected_codes |-> ec, admin_state_up |-> TRUE], missing) :
        ty \in {"ping", "tcp", "http", "https"}, hm \in {"", "GET"},
        up \in {"", "/"}, ec \in {"", "200"},
        missing \in SUBSET {"type", "http_method", "url_path",
                            "expected_codes"}}

AddMonitor_gateways ==
    {[pool_health_monitor_create |-> o] :
        o \in {Raises, Returns([id |-> "m1"]), Returns(EmptyDict)}}

PoolUniverse ==
    {[id |-> "p1", name |-> "web"], [id |-> "p2", name |-> "db"],
     [id |-> "p3", name |-> "db"]}

ServerName(i) == NameOrder[((2 * i) % 3) + 1]

ServerUniverse == {[id |-> i, name |-> ServerName(i)] : i \in Instances}

Subnet(id, cidr) == [id |-> id, cidr |-> cidr]

NetworkUniverse ==
    {[subnets |-> <<Subnet("s1", "10.0.0.0/24"), Subnet("s2", "10.0.1.0/24")>>],
     [subnets |-> <<>>],
     [subnets |-> <<Subnet("s3", "10.0.2.0/24")>>]}

ReadOutcomes(universe) ==
    {Raises} \cup {Returns(q) : q \in DistinctSeqs(universe, MaxList)}

Ports ==
    {[id |-> "port1", device_owner |-> ow, device_id |-> dv] :
        ow \in {None, "", "compute:nova", "network:dhcp"},
        dv \in {None, "", "dev-1"}}

----------------------------------------------------------------------------
(* The state machine *)

Init ==
    /\ wf = "idle"
    /\ cleaned_data = EmptyDict
    /\ errors = {}
    /\ merged = EmptyDict
    /\ context = EmptyDict
    /\ calls = <<>>
    /\ result = "none"
    /\ failure_message = ""
    /\ fields = EmptyDict
    /\ notices = <<>>
    /\ port = EmptyDict
    /\ attached = ""

\* a submission: clean the form; if it is valid, contribute and handle
Submitted(name, data, errs, ctx, out) ==
    /\ wf' = name
    /\ cleaned_data' = data
    /\ errors' = errs
    /\ merged' = ctx
    /\ context' = out.context
    /\ calls' = out.calls
    /\ result' = out.result
    /\ failure_message' = out.failure_message
    /\ UNCHANGED <<fields, notices, port, attached>>

Unreached(ctx, msg) == Outcome("unreached", ctx, <<>>, msg)

SubmitAddPool ==
    /\ wf = "idle"
    /\ \E data \in AddPool_data, gw \in AddPool_gateways :
          LET errs == Form_field_errors(AddPoolStep_contributes, data)
              ctx == AddPoolStep_contribute(data, EmptyDict)
          IN  Submitted("AddPool", data, errs, ctx,
                        IF Form_is_valid(errs)
                        THEN AddPool_handle(ctx, gw)
                        ELSE Unreached(ctx, AddPool_failure_message))

SubmitAddVip ==
    /\ wf = "idle"
    /\ \E data \in AddVip_data, gw \in AddVip_gateways :
          LET errs == Form_field_errors(AddVipStep_contributes, data)
                      \cup AddVipAction_clean(data)
              ctx == AddVipStep_contribute(data, AddVip_seed)
          IN  Submitted("AddVip", data, errs, ctx,
                        IF Form_is_valid(errs)
                        THEN AddVip_handle(ctx, gw)
                        ELSE Unreached(ctx, AddVip_failure_message))

SubmitAddMember ==
    /\ wf = "idle"
    /\ \E data \in AddMember_data, gw \in AddMember_gateways :
          LET errs == Form_field_errors(AddMemberStep_contributes, data)
              ctx == AddMemberStep_contribute(data, EmptyDict)
          IN  Submitted("AddMember", data, errs, ctx,
                        IF Form_is_valid(errs)
                        THEN AddMember_handle(ctx, gw)
                        ELSE Unreached(ctx, AddMember_failure_message))

SubmitAddMonitor ==
    /\ wf = "idle"
    /\ \E data \in AddMonitor_data, gw \in AddMonitor_gateways :
          LET errs == Form_field_errors(AddMonitorStep_contributes, data)
                      \cup AddMonitorAction_clean(data)
              ctx == AddMonitorStep_contribute(data, EmptyDict)
          IN  Submitted("AddMonitor", data, errs, ctx,
                        IF Form_is_valid(errs)
                        THEN AddMonitor_handle(ctx, gw)
                        ELSE Unreached(ctx, AddMonitor_failure_message))

\* the construction of an Action when its step is rendered
Constructed(name, built) ==
    /\ wf' = name
    /\ result' = built.result
    /\ fields' = built.fields
    /\ notices' = built.notices
    /\ calls' = built.calls
    /\ UNCHANGED <<cleaned_data, errors, merged, context, failure_message,
                   port, attached>>

NewAddPoolAction ==
    /\ wf = "idle"
    /\ \E nets \in ReadOutcomes(NetworkUniverse) :
          Constructed("AddPoolAction",
                      AddPoolAction_init([network_list_for_tenant |-> nets]))

NewAddMemberAction ==
    /\ wf = "idle"
    /\ \E pools \in ReadOutcomes(PoolUniverse),
          servers \in ReadOutcomes(ServerUniverse) :
          Constructed("AddMemberAction",
                      AddMemberAction_init([pools_get |-> pools,
                                            server_list |-> servers]))

NewAddMonitorAction ==
    /\ wf = "idle"
    /\ \E pools \in ReadOutcomes(PoolUniverse) :
          Constructed("AddMonitorAction",
                      AddMonitorAction_init([pools_get |-> pools]))

\* the rendering of the attached column of one row of PortsTable
RenderPort ==
    /\ wf = "idle"
    /\ \E pt \in Ports :
          /\ wf' = "PortsTable"
          /\ port' = pt
          /\ attached' = get_attached(pt)
    /\ UNCHANGED <<cleaned_data, errors, merged, context, calls, result,
                   failure_message, fields, notices>>

\* the shared context a Step finds when it contributes
PriorContexts ==
    {EmptyDict, AddVip_seed, [name |-> "earlier", tenant |-> "t1"]}

\* one call of a Step's contribute: result tells whether it returned the
\* context or None, context is the shared context after the call
Contributed(name, data, before, returned, after) ==
    /\ wf' = name
    /\ cleaned_data' = data
    /\ merged' = before
    /\ context' = after
    /\ result' = IF returned THEN "context" ELSE "None"
    /\ UNCHANGED <<errors, calls, failure_message, fields, notices, port,
                   attached>>

ContributeAddPoolStep ==
    /\ wf = "idle"
    /\ \E data \in AddPool_data \cup {EmptyDict}, before \in PriorContexts :
          Contributed("AddPoolStep", data, before,
                      AddPoolStep_returns_context(data),
                      IF AddPoolStep_returns_context(data)
                      THEN AddPoolStep_contribute(data, before)
                      ELSE Step_contribute(AddPoolStep_contributes, data,
                                           before))

ContributeAddVipStep ==
    /\ wf = "idle"
    /\ \E data \in AddVip_data \cup {EmptyDict}, before \in PriorContexts :
          Contributed("AddVipStep", data, before, TRUE,
                      AddVipStep_contribute(data, before))

ContributeAddMemberStep ==
    /\ wf = "idle"
    /\ \E data \in AddMember_data \cup {EmptyDict}, before \in PriorContexts :
          Contributed("AddMemberStep", data, before, TRUE,
                      AddMemberStep_contribute(data, before))

ContributeAddMonitorStep ==
    /\ wf = "idle"
    /\ \E data \in AddMonitor_data \cup {EmptyDict},
          before \in PriorContexts :
          Contributed("AddMonitorStep", data, before,
                      AddMonitorStep_returns_context(data),
                      IF AddMonitorStep_returns_context(data)
                      THEN AddMonitorStep_contribute(data, before)
                      ELSE Step_contribute(AddMonitorStep_contributes, data,
                                           before))

\* the request is answered; nothing of it is kept for the next one
Respond ==
    /\ wf # "idle"
    /\ wf' = "idle"
    /\ cleaned_data' = EmptyDict
    /\ errors' = {}
    /\ merged' = EmptyDict
    /\ context' = EmptyDict
    /\ calls' = <<>>
    /\ result' = "none"
    /\ failure_message' = ""
    /\ fields' = EmptyDict
    /\ notices' = <<>>
    /\ port' = EmptyDict
    /\ attached' = ""

Next ==
    \/ SubmitAddPool
    \/ SubmitAddVip
    \/ SubmitAddMember
    \/ SubmitAddMonitor
    \/ NewAddPoolAction
    \/ NewAddMemberAction
    \/ NewAddMonitorAction
    \/ RenderPort
    \/ ContributeAddPoolStep
    \/ ContributeAddVipStep
    \/ ContributeAddMemberStep
    \/ ContributeAddMonitorStep
    \/ Respond

Spec == Init /\ [][Next]_vars

----------------------------------------------------------------------------
(* Properties *)

Workflows == {"AddPool", "AddVip", "AddMember", "AddMonitor"}

CreateOps ==
    {"pool_create", "vip_create", "member_create",
     "pool_health_monitor_create"}

\* handle has run in the current request
Handled(name) == wf = name /\ result # "unreached"

\* the positions of the calls of one gateway operation
CallsOf(op) == {i \in DOMAIN calls : calls[i].op = op}

CreateCalls == {i \in DOMAIN calls : calls[i].op \in CreateOps}

BothAddresses ==
    merged["floatip_address"] # "" /\ merged["other_address"] # ""

NeitherAddress ==
    merged["floatip_address"] = "" /\ merged["other_address"] = ""

\* C1 as stated: AddVip.handle returns False without calling vip_create
\* whenever both addresses or neither address is given, and returns True
\* only when exactly one of them is given.
C1_FailsClosedOnBothOrNeither ==
    Handled("AddVip") =>
        /\ (BothAddresses \/ NeitherAddress) =>
               result = "False" /\ CallsOf("vip_create") = {}
        /\ result = "True" => ~BothAddresses /\ ~NeitherAddress

\* C1 amended: AddVip.handle returns False without any gateway call when
\* both addresses are given, and returns True only when at most one is given;
\* with neither address it goes on to pool_get and vip_create.
C1_FailsClosedOnBoth ==
    Handled("AddVip") =>
        /\ BothAddresses => result = "False" /\ calls = <<>>
        /\ result = "True" => ~BothAddresses
        /\ NeitherAddress => CallsOf("pool_get") # {}

C1_Witness ==
    /\ Handled("AddVip")
    /\ BothAddresses
    /\ result = "False"

\* C2: AddVip.handle sets address to floatip_address when other_address is
\* empty (so to "" when both are empty), to other_address when only that one
\* is given, and every vip_create carries that address; with both given it
\* returns False and the context has no address.
C2_AddressResolution ==
    Handled("AddVip") =>
        LET expected == IF merged["other_address"] = ""
                        THEN merged["floatip_address"]
                        ELSE merged["other_address"]
        IN  IF BothAddresses
            THEN result = "False" /\ "address" \notin DOMAIN context
            ELSE /\ "address" \in DOMAIN context
                 /\ context["address"] = expected
                 /\ \A i \in CallsOf("vip_create") :
                        /\ "address" \in DOMAIN calls[i].args
                        /\ calls[i].args["address"] = expected

C2_Witness ==
    /\ Handled("AddVip")
    /\ merged["other_address"] = ""
    /\ merged["floatip_address"] = "10.0.0.5"
    /\ \E i \in CallsOf("vip_create") : calls[i].args["address"] = "10.0.0.5"

\* the device ids of the port_list calls, in call order
RECURSIVE PortListIds(_)
PortListIds(log) ==
    IF log = <<>>
    THEN <<>>
    ELSE IF Head(log).op = "port_list"
         THEN <<Head(log).args.device_id>> \o PortListIds(Tail(log))
         ELSE PortListIds(Tail(log))

\* C3: AddMember.handle works through the selected instances in order; a
\* call that raises is the last call of the invocation and makes the result
\* False, only port_list and member_create are ever called (nothing is
\* deleted or rolled back), so the member_create calls that succeeded before
\* the failure remain.
C3_AbortOnFirstFailure ==
    Handled("AddMember") =>
        LET ids == PortListIds(calls)
        IN  /\ \A i \in DOMAIN calls :
                   /\ calls[i].op \in {"port_list", "member_create"}
                   /\ calls[i].raised => i = Len(calls) /\ result = "False"
            /\ Len(ids) <= Len(merged["members"])
            /\ ids = SubSeq(merged["members"], 1, Len(ids))
            /\ result = "False" => calls # <<>> /\ calls[Len(calls)].raised
            /\ \A i \in CallsOf("member_create") :
                   i > 1 /\ calls[i - 1].op = "port_list"
                         /\ ~calls[i - 1].raised

C3_Witness ==
    /\ Handled("AddMember")
    /\ result = "False"
    /\ Len(merged["members"]) = 2
    /\ \E i \in CallsOf("member_create") : ~calls[i].raised
    /\ calls[Len(calls)].raised

\* C4 as stated: no create-call of any workflow carries a key that is not in
\* the merged context contributed by the Steps.
C4_OnlyStepKeys ==
    wf \in Workflows =>
        \A i \in CreateCalls : DOMAIN calls[i].args \subseteq DOMAIN merged

\* the arguments keep every value of the merged context, but for the keys in
\* rebuilt
KeepsMerged(args, rebuilt) ==
    \A k \in (DOMAIN merged) \ rebuilt :
        k \in DOMAIN args /\ args[k] = merged[k]

\* C4 amended: a create-call carries the merged context and, beyond it, only
\* keys that handle derives: pool_create and pool_health_monitor_create carry
\* exactly the merged context; vip_create carries it with address and
\* subnet_id added and session_persistence rebuilt; a member_create carries
\* it with address added when the instance has a port, and with member_id
\* added exactly from the second member_create of the invocation on.
C4_StepKeysAndDerived ==
    wf \in Workflows =>
        \A i \in CreateCalls :
            LET args == calls[i].args
            IN  CASE calls[i].op = "vip_create" ->
                       /\ DOMAIN args = DOMAIN merged \cup {"address", "subnet_id"}
                       /\ KeepsMerged(args, {"session_persistence"})
                  [] calls[i].op = "member_create" ->
                       /\ DOMAIN merged \subseteq DOMAIN args
                       /\ DOMAIN args \subseteq
                              DOMAIN merged \cup {"address", "member_id"}
                       /\ KeepsMerged(args, {})
                       /\ "member_id" \in DOMAIN args <=>
                              \E j \in CallsOf("member_create") : j < i
                  [] OTHER -> args = merged

C4_Witness ==
    /\ Handled("AddMember")
    /\ Cardinality(CallsOf("member_create")) = 2
    /\ \E i \in CallsOf("member_create") : "member_id" \in DOMAIN calls[i].args

\* C5: AddPool, AddVip and AddMonitor issue at most one create-call per
\* invocation and exactly one, which succeeded, when handle returns True;
\* AddMember issues at most one member_create per selected instance, each
\* right after the port_list of that instance, and when it returns True it
\* has issued exactly one successful member_create per selected instance,
\* in selection order.
C5_OneTerminalMutation ==
    /\ \A name \in {"AddPool", "AddVip", "AddMonitor"} :
           Handled(name) =>
               /\ Cardinality(CreateCalls) <= 1
               /\ result = "True" =>
                      /\ Cardinality(CreateCalls) = 1
                      /\ \A i \in CreateCalls : ~calls[i].raised
    /\ Handled("AddMember") =>
           LET ids == PortListIds(calls)
           IN  /\ \A i, j \in DOMAIN ids : i # j => ids[i] # ids[j]
               /\ \A i \in CreateCalls :
                      /\ calls[i].op = "member_create"
                      /\ i > 1 /\ calls[i - 1].op = "port_list"
               /\ Cardinality(CreateCalls) <= Len(merged["members"])
               /\ result = "True" =>
                      /\ ids = merged["members"]
                      /\ Len(calls) = 2 * Len(ids)
                      /\ \A n \in DOMAIN ids :
                             /\ calls[2 * n - 1].op = "port_list"
                             /\ calls[2 * n - 1].args.device_id = ids[n]
                             /\ calls[2 * n].op = "member_create"
                             /\ ~calls[2 * n].raised

C5_Witness ==
    /\ Handled("AddMember")
    /\ result = "True"
    /\ Len(merged["members"]) = 2
    /\ Cardinality(CallsOf("member_create")) = 2

\* C6: in every workflow a gateway call that raises during handle makes
\* handle return False; in AddVip, vip_create is called only after a
\* pool_get that did not fail, and never when the pool lookup failed.
C6_FailuresBecomeFalse ==
    /\ \A name \in Workflows :
           (Handled(name) /\ \E i \in DOMAIN calls : calls[i].raised) =>
               result = "False"
    /\ Handled("AddVip") =>
           /\ \A i \in CallsOf("vip_create") :
                  \E j \in CallsOf("pool_get") : j < i /\ ~calls[j].raised
           /\ (\E j \in CallsOf("pool_get") : calls[j].raised) =>
                  CallsOf("vip_create") = {}
           /\ Get(context, "subnet_id") = None => CallsOf("vip_create") = {}

C6_Witness ==
    /\ Handled("AddVip")
    /\ \E j \in CallsOf("pool_get") : calls[j].raised
    /\ result = "False"

\* C7: an AddVip submission with session_persistence APP_COOKIE and no
\* cookie_name gets an error on cookie_name and does not reach handle, and
\* no vip_create carries a session_persistence of type APP_COOKIE with an
\* empty cookie_name.
C7_CookieNameGatesHandle ==
    wf = "AddVip" =>
        /\ (Get(cleaned_data, "session_persistence") = "APP_COOKIE"
            /\ Get(cleaned_data, "cookie_name") \in {None, ""}) =>
               /\ "cookie_name" \in errors
               /\ result = "unreached"
               /\ calls = <<>>
        /\ \A i \in CallsOf("vip_create") :
               <<"type", "APP_COOKIE">> \in calls[i].args["session_persistence"] =>
                   \E item \in calls[i].args["session_persistence"] :
                       item[1] = "cookie_name" /\ item[2] \notin {None, ""}

C7_Witness ==
    /\ wf = "AddVip"
    /\ Get(cleaned_data, "session_persistence") = "APP_COOKIE"
    /\ Get(cleaned_data, "cookie_name") = ""
    /\ "cookie_name" \in errors
    /\ result = "unreached"

HttpFields == {"http_method", "url_path", "expected_codes"}

\* C8: after AddMonitorAction.clean, for type http or https each of
\* http_method, url_path and expected_codes has an error exactly when it is
\* empty; for type ping or tcp none of the three has an error that clean
\* added (only a field that failed its own validation has one).
C8_HttpFieldsRequiredIffHttp ==
    wf = "AddMonitor" =>
        /\ Get(cleaned_data, "type") \in {"http", "https"} =>
               \A f \in HttpFields :
                   f \in errors <=> Get(cleaned_data, f) \in {None, ""}
        /\ Get(cleaned_data, "type") \in {"ping", "tcp"} =>
               errors \cap HttpFields = HttpFields \ DOMAIN cleaned_data

C8_Witness ==
    /\ wf = "AddMonitor"
    /\ Get(cleaned_data, "type") = "https"
    /\ Get(cleaned_data, "url_path") = ""
    /\ Get(cleaned_data, "http_method") = "GET"
    /\ errors = {"url_path"}

\* the read call of an Action constructor raised
ReadFailed(op) == \E i \in CallsOf(op) : calls[i].raised

\* the choices of a field besides the placeholder with the empty value
GatewayChoices(f) == {c \in Range(fields[f].choices) : c[1] # ""}

\* C9: when the read call that populates a choice field raises, the Action
\* is still constructed, the failure is reported through exceptions.handle,
\* and the choice list holds no gateway entry: only the placeholder for
\* subnet_id and pool_id, nothing for members.
C9_ReadFailuresDegrade ==
    /\ wf \in {"AddPoolAction", "AddMemberAction", "AddMonitorAction"} =>
           result = "constructed"
    /\ (wf = "AddPoolAction" /\ ReadFailed("network_list_for_tenant")) =>
           /\ "Unable to retrieve networks list." \in Range(notices)
           /\ fields["subnet_id"].choices = <<(<<"", "Select a Subnet">>)>>
    /\ (wf \in {"AddMemberAction", "AddMonitorAction"}
        /\ ReadFailed("pools_get")) =>
           /\ "Unable to retrieve pools list." \in Range(notices)
           /\ fields["pool_id"].choices = <<(<<"", "Select a Pool">>)>>
    /\ (wf = "AddMemberAction" /\ ReadFailed("server_list")) =>
           /\ "Unable to retrieve instances list." \in Range(notices)
           /\ fields["members"].choices = <<>>

C9_Witness ==
    /\ wf = "AddMemberAction"
    /\ ReadFailed("server_list")
    /\ ~ReadFailed("pools_get")
    /\ GatewayChoices("pool_id") # {}
    /\ fields["members"].choices = <<>>

\* C10: the attached column shows device_owner when it is non-empty,
\* whatever device_id is; otherwise "Attached" when device_id is non-empty;
\* otherwise "Detached".
C10_AttachedPriority ==
    wf = "PortsTable" =>
        LET owner == port["device_owner"]
            device == port["device_id"]
        IN  /\ owner \notin {None, ""} => attached = owner
            /\ (owner \in {None, ""} /\ device \notin {None, ""}) =>
                   attached = "Attached"
            /\ (owner \in {None, ""} /\ device \in {None, ""}) =>
                   attached = "Detached"

C10_Witness ==
    /\ wf = "PortsTable"
    /\ port["device_owner"] = "compute:nova"
    /\ port["device_id"] = "dev-1"
    /\ attached = "compute:nova"

\* the member_create calls, each with the instance whose port_list call
\* comes right before it
MemberCreatesFor(m) ==
    {i \in CallsOf("member_create") :
        i > 1 /\ calls[i - 1].op = "port_list"
              /\ calls[i - 1].args.device_id = m}

\* C11: an address carried by the member_create issued for instance m is
\* the first fixed IP of the first port of m, never an address of another
\* instance processed earlier in the same invocation.
C11_AddressPerInstance ==
    Handled("AddMember") =>
        \A m \in Range(merged["members"]) :
            \A i \in MemberCreatesFor(m) :
                "address" \in DOMAIN calls[i].args =>
                    calls[i].args["address"] = IpOf(m, 1)

\* C13: AddMember.handle ends with a boolean result, whatever the selection
\* and whatever port_list returns: no exception leaves it.
C13_AlwaysBoolean ==
    Handled("AddMember") => result \in {"True", "False"}

Steps == {"AddPoolStep", "AddVipStep", "AddMemberStep", "AddMonitorStep"}

\* C12: for every Step and every form data, empty data included,
\* contribute returns the shared context, and every key the context had
\* before the call is still in it.
C12_ContributeReturnsContext ==
    wf \in Steps =>
        /\ result = "context"
        /\ DOMAIN merged \subseteq DOMAIN context

====
